---- MODULE Spec2Model ----
(***************************************************************************)
(* Kronos storage core: the Cassandra storage facade (client.py), the      *)
(* time/identifier helpers (math.py) and, behind the facade, the Stream /  *)
(* Namespace engine it drives.                                             *)
(*                                                                         *)
(* Identifiers are the six UUID fields that uuid_from_kronos_time builds.  *)
(* The field widths are scaled down (the source uses 32/16/12 bits of time *)
(* and 6/8/48 low-order bits); every mask is 2^width - 1 as in the source. *)
(* One model tick is one second (the source has 10^7 ticks per second).    *)
(***************************************************************************)
EXTENDS Integers, Sequences, FiniteSets, TLC

VARIABLES
  configuration,  \* the stream settings every request is served with
  table,          \* rows of the `stream` column family of the keyspace
  stream_list,    \* the set stored in the `stream_list` metadata row
  streams,        \* Namespace.streams: memoized Stream handles
  pc,             \* "idle": waiting for a request, "done": response ready
  call,           \* the request being served
  before,         \* `table` as it was when the request arrived
  result,         \* what the request returned (the emitted sequence)
  workers,        \* the position and locals of each concurrent worker
  namespace_names,  \* the configured namespaces, in iteration order
  connections_to_shutdown,  \* the list the exit hook closes over
  shutdown        \* the connections shut down so far, in order

vars ==
  <<configuration, table, stream_list, streams, pc, call, before, result,
    workers, namespace_names, connections_to_shutdown, shutdown>>

----------------------------------------------------------------------------
(* Bounds of the model.                                                    *)

MaxTime == 2     \* events and end_time carry kronos times 0..MaxTime
MaxEvents == 2   \* at most this many rows are stored at once
MaxLimit == 1    \* finite limits are 0..MaxLimit

Times == 0 .. MaxTime
Widths == {1, 2}             \* timewidth_seconds
ShardCounts == {1, 2}        \* shards_per_bucket
StreamNames == {"a", "b"}
Blobs == {"p"}

(* Scaled field widths of the identifier.                                  *)
TimeLowBits == 4   \* time_low,            0xffffffff in the source
TimeMidBits == 2   \* time_mid,            0xffff
TimeHiBits == 2    \* time_hi_version,     0x0fff
SeqHiBits == 1     \* clock_seq_hi_variant 0x3f
SeqLowBits == 0    \* clock_seq_low        0xff
NodeBits == 0      \* node                 0xffffffffffff
VersionBits == 1   \* the version bits above the time in time_hi_version
VariantBits == 2   \* the variant bits above the sequence in clock_seq_hi_variant

(* The Gregorian -> Unix offset 0x01b21dd213814000, scaled.                *)
EpochOffset == 5
(* Ticks of kronos time per second (1e7 in the source).                    *)
TicksPerSecond == 1

ASCENDING == "ascending"
DESCENDING == "descending"
LOWEST == "LOWEST"
HIGHEST == "HIGHEST"
RANDOM == "RANDOM"
UUIDTypes == {LOWEST, HIGHEST, RANDOM}
(* A limit no stored sequence reaches: the caller asks for everything.     *)
NoLimit == 2 ^ 30

----------------------------------------------------------------------------
(* math.py                                                                 *)

time_to_kronos_time(time) == time * TicksPerSecond

(* kronos.common.time: seconds since the epoch to kronos time.             *)
epoch_time_to_kronos_time(time) == time_to_kronos_time(time)

(* uuid4(): a version-4 UUID has the RFC 4122 variant, so the byte         *)
(* clock_seq_hi_variant is 0x80 | (6 random bits); clock_seq_low and node  *)
(* are random.                                                             *)
uuid4 ==
  [clock_seq_hi_variant :
     {2 ^ (SeqHiBits + VariantBits - 1) + r : r \in 0 .. (2 ^ SeqHiBits) - 1},
   clock_seq_low : 0 .. (2 ^ SeqLowBits) - 1,
   node : 0 .. (2 ^ NodeBits) - 1]

uuid_from_kronos_time(time, _type, randomuuid) ==
  LET timestamp == time + EpochOffset
      time_low == timestamp % (2 ^ TimeLowBits)
      time_mid == (timestamp \div (2 ^ TimeLowBits)) % (2 ^ TimeMidBits)
      time_hi_version ==
        (timestamp \div (2 ^ (TimeLowBits + TimeMidBits))) % (2 ^ TimeHiBits)
      low == CASE _type = LOWEST ->
                    [clock_seq_low |-> 0, clock_seq_hi_variant |-> 0, node |-> 0]
               [] _type = HIGHEST ->
                    [clock_seq_low |-> (2 ^ SeqLowBits) - 1,
                     clock_seq_hi_variant |-> (2 ^ SeqHiBits) - 1,
                     node |-> (2 ^ NodeBits) - 1]
               [] OTHER ->
                    [clock_seq_low |-> randomuuid.clock_seq_low,
                     clock_seq_hi_variant |-> randomuuid.clock_seq_hi_variant,
                     node |-> randomuuid.node]
  IN [time_low |-> time_low,
      time_mid |-> time_mid,
      time_hi_version |-> time_hi_version,
      clock_seq_hi_variant |-> low.clock_seq_hi_variant,
      clock_seq_low |-> low.clock_seq_low,
      node |-> low.node]

(* UUID.time: the timestamp read back from the three time fields.          *)
uuid_time(uuid) ==
  (uuid.time_hi_version % (2 ^ TimeHiBits)) * (2 ^ (TimeLowBits + TimeMidBits))
    + uuid.time_mid * (2 ^ TimeLowBits) + uuid.time_low

(* uuid_to_kronos_time reading the time without the two highest bits of    *)
(* time_hi_version.                                                        *)
uuid_to_kronos_time_short(uuid) ==
  uuid_time([uuid EXCEPT !.time_hi_version = @ % (2 ^ (TimeHiBits - 1))])
    - EpochOffset

uuid_to_kronos_time(uuid) == uuid_time(uuid) - EpochOffset

uuid_from_time(time, _type, randomuuid) ==
  uuid_from_kronos_time(time_to_kronos_time(time), _type, randomuuid)

(* round_down going to the multiple of base above the value.               *)
round_to_next(value, base) == value - (value % base) + base

round_down(value, base) == value - (value % base)

----------------------------------------------------------------------------
(* TimeUUID: the total order on identifiers.  Time is compared first, then *)
(* the big-endian bytes of the identifier, that is its value as one        *)
(* integer with time_low in the highest bits and node in the lowest.       *)

uuid_int(uuid) ==
  ((((uuid.time_low * (2 ^ TimeMidBits) + uuid.time_mid)
       * (2 ^ (TimeHiBits + VersionBits)) + uuid.time_hi_version)
      * (2 ^ (SeqHiBits + VariantBits)) + uuid.clock_seq_hi_variant)
     * (2 ^ SeqLowBits) + uuid.clock_seq_low)
    * (2 ^ NodeBits) + uuid.node

TimeUUID_lt(a, b) ==
  \/ uuid_time(a) < uuid_time(b)
  \/ uuid_time(a) = uuid_time(b) /\ uuid_int(a) < uuid_int(b)

TimeUUID_le(a, b) == a = b \/ TimeUUID_lt(a, b)

----------------------------------------------------------------------------
(* Namespace and Stream (kronos.storage.cassandra.internal).               *)

(* The `stream` table: PRIMARY KEY ((stream_name, bucket_start_time,       *)
(* shard), id); a write to an existing primary key replaces the cell.      *)
(* A primary key without the clustering column id.                         *)
PrimaryKey_without_id(row) ==
  <<row.stream_name, row.bucket_start_time, row.shard>>

PrimaryKey(row) ==
  <<row.stream_name, row.bucket_start_time, row.shard, row.id>>

Upsert(tbl, row) ==
  {r \in tbl : PrimaryKey(r) # PrimaryKey(row)} \cup {row}

(* The shard taken as the id's time, without the modulo.                   *)
shard_of_unbounded(id, shards) == uuid_to_kronos_time(id)

(* The shard of an event: its id's time modulo the shard count.            *)
shard_of(id, shards) == uuid_to_kronos_time(id) % shards

Stream_row(stream, event) ==
  [stream_name |-> stream.name,
   bucket_start_time |-> round_down(uuid_to_kronos_time(event.id), stream.width),
   shard |-> shard_of(event.id, stream.shards),
   id |-> event.id,
   blob |-> event.blob]

(* Stream.insert choosing the shard by position in the batch instead of by  *)
(* the id.                                                                 *)
RECURSIVE Stream_insert_round_robin(_, _, _)
Stream_insert_round_robin(tbl, stream, events) ==
  IF events = <<>> THEN tbl
  ELSE Stream_insert_round_robin(
         Upsert(tbl, [Stream_row(stream, Head(events))
                        EXCEPT !.shard = Len(events) % stream.shards]),
         stream, Tail(events))

RECURSIVE Stream_insert(_, _, _)
Stream_insert(tbl, stream, events) ==
  IF events = <<>> THEN tbl
  ELSE Stream_insert(Upsert(tbl, Stream_row(stream, Head(events))),
                     stream, Tail(events))

(* Bucket starts b = round_down(t_start, width), +width, ... while         *)
(* b <= t_end, in increasing order.                                        *)
RECURSIVE BucketsFrom(_, _, _)
BucketsFrom(b, width, t_end) ==
  IF b > t_end THEN <<>> ELSE <<b>> \o BucketsFrom(b + width, width, t_end)

overlapping_buckets(stream, start_id, end_id) ==
  BucketsFrom(round_down(uuid_to_kronos_time(start_id), stream.width),
              stream.width, uuid_to_kronos_time(end_id))

(* Every (bucket, shard) partition the range touches.                      *)
RECURSIVE overlapping_shards_of(_, _)
overlapping_shards_of(buckets, shards) ==
  IF buckets = <<>> THEN <<>>
  ELSE [s \in 1 .. shards |-> <<Head(buckets), s - 1>>]
         \o overlapping_shards_of(Tail(buckets), shards)

overlapping_shards(stream, start_id, end_id) ==
  overlapping_shards_of(overlapping_buckets(stream, start_id, end_id),
                        stream.shards)

(* The cells of one partition with start_id <= id <= end_id, in clustering *)
(* order (ascending by id), or reversed for a descending read.             *)
RECURSIVE InClusteringOrder(_, _)
InClusteringOrder(cells, descending) ==
  IF cells = {} THEN <<>>
  ELSE LET first == CHOOSE c \in cells : \A d \in cells :
                      IF descending THEN TimeUUID_le(d.id, c.id)
                                    ELSE TimeUUID_le(c.id, d.id)
       IN <<first>> \o InClusteringOrder(cells \ {first}, descending)

shard_iterator(tbl, stream, part, start_id, end_id, descending) ==
  InClusteringOrder(
    {[id |-> r.id, blob |-> r.blob] :
       r \in {q \in tbl : /\ q.stream_name = stream.name
                          /\ q.bucket_start_time = part[1]
                          /\ q.shard = part[2]
                          /\ TimeUUID_le(start_id, q.id)
                          /\ TimeUUID_le(q.id, end_id)}},
    descending)

(* The sort-merger: pop the iterator whose head comes first in the         *)
(* requested order, emit it unless it repeats the last emitted id, stop    *)
(* after `limit` events.                                                   *)
first_iterator(iterators, descending) ==
  CHOOSE k \in DOMAIN iterators :
    /\ iterators[k] # <<>>
    /\ \A j \in DOMAIN iterators :
         iterators[j] # <<>> =>
           IF descending
             THEN TimeUUID_le(Head(iterators[j]).id, Head(iterators[k]).id)
             ELSE TimeUUID_le(Head(iterators[k]).id, Head(iterators[j]).id)

RECURSIVE merge(_, _, _, _)
RECURSIVE merge_pop(_, _, _, _, _)
merge_pop(iterators, i, descending, limit, last) ==
  IF last # <<>> /\ last[1] = Head(iterators[i]).id
    THEN merge([iterators EXCEPT ![i] = Tail(@)], descending, limit, last)
    ELSE <<Head(iterators[i])>>
           \o merge([iterators EXCEPT ![i] = Tail(@)], descending, limit - 1,
                    <<Head(iterators[i]).id>>)

merge(iterators, descending, limit, last) ==
  IF limit <= 0 \/ \A i \in DOMAIN iterators : iterators[i] = <<>>
    THEN <<>>
    ELSE merge_pop(iterators, first_iterator(iterators, descending),
                   descending, limit, last)

Stream_iterator(tbl, stream, start_id, end_id, descending, limit) ==
  LET parts == overlapping_shards(stream, start_id, end_id)
  IN merge([i \in DOMAIN parts |->
              shard_iterator(tbl, stream, parts[i], start_id, end_id, descending)],
           descending, limit, <<>>)

(* One ranged tombstone per partition touched; returns the table and the   *)
(* number of tombstones written.                                           *)
Stream_delete(tbl, stream, start_id, end_id) ==
  LET parts == overlapping_shards(stream, start_id, end_id)
      touched == {parts[i] : i \in DOMAIN parts}
  IN [table |-> {r \in tbl :
                   ~(/\ r.stream_name = stream.name
                     /\ <<r.bucket_start_time, r.shard>> \in touched
                     /\ TimeUUID_le(start_id, r.id)
                     /\ TimeUUID_le(r.id, end_id))},
      tombstones |-> Len(parts)]

(* Namespace.get_stream: memoized per (name, width, shards).               *)
Namespace_get_stream(name, width, shards) ==
  [name |-> name, width |-> width, shards |-> shards]

(* Namespace.streams holds one handle per (name, width, shards).  A handle *)
(* is a Stream object: the stream it serves and the worker that            *)
(* constructed it.                                                         *)
Handle(stream, creator) == [stream |-> stream, creator |-> creator]

Namespace_lookup(handles, stream) == {h \in handles : h.stream = stream}

(* First-time creation without the guard: the handle is stored over any    *)
(* handle of the key, and its creator keeps using it.                      *)
Namespace_put_unguarded(handles, handle) ==
  [streams |-> {h \in handles : h.stream # handle.stream} \cup {handle},
   handle |-> handle]

(* The guarded first-time creation: the first handle stored for a key is   *)
(* the winner's and every caller uses it; a loser discards its own.        *)
Namespace_put(handles, handle) ==
  LET found == Namespace_lookup(handles, handle.stream)
  IN IF found = {}
       THEN [streams |-> handles \cup {handle}, handle |-> handle]
       ELSE [streams |-> handles, handle |-> CHOOSE h \in found : TRUE]

(* Namespace.list_streams: the names in the stream_list row.               *)
Namespace_list_streams(names) == names

----------------------------------------------------------------------------
(* client.py: CassandraStorage                                             *)

(* The argument uuid_from_kronos_time ignores unless _type is RANDOM.      *)
unused_uuid4 == CHOOSE r \in uuid4 : TRUE

get_stream(stream, conf) ==
  LET width == epoch_time_to_kronos_time(conf.timewidth_seconds)
  IN Namespace_get_stream(stream, width, conf.shards_per_bucket)

(* _insert writing through the insert that shards by batch position.       *)
_insert_round_robin(tbl, stream, events, conf) ==
  Stream_insert_round_robin(tbl, get_stream(stream, conf), events)

_insert(tbl, stream, events, conf) ==
  Stream_insert(tbl, get_stream(stream, conf), events)

_streams(names) == Namespace_list_streams(names)

(* setup_cassandra with the cluster put first in the list.                 *)
setup_cassandra_cluster_first(namespaces) ==
  <<[kind |-> "cluster", keyspace |-> ""]>>
    \o [i \in DOMAIN namespaces |->
          [kind |-> "session", keyspace |-> namespaces[i]]]

(* setup_cassandra: connections_to_shutdown is the session of every        *)
(* namespace, in the order the namespaces are iterated, then the cluster.  *)
setup_cassandra(namespaces) ==
  [i \in DOMAIN namespaces |->
     [kind |-> "session", keyspace |-> namespaces[i]]]
    \o <<[kind |-> "cluster", keyspace |-> ""]>>

_delete(tbl, stream, start_id, end_time, conf) ==
  Stream_delete(tbl, get_stream(stream, conf), start_id,
                uuid_from_kronos_time(end_time, HIGHEST, unused_uuid4))

(* events.next() on an exhausted iterator raises StopIteration.  In        *)
(* _retrieve it is raised by the first events.next() when the iterator is  *)
(* empty and by the one in the loop otherwise; nothing catches it, so it   *)
(* leaves the generator frame, which (Python 2) ends the iteration: the    *)
(* consumer of the generator sees its end, not an error.                   *)
StopIteration == "StopIteration"

RECURSIVE generator_exit(_)
generator_exit(events) ==
  IF events = <<>> THEN StopIteration ELSE generator_exit(Tail(events))

(* The generator's loop yielding every event, the first one included.      *)
skip_nothing(events, start_id) == events

(* The generator's loop: the first event is dropped when its id is         *)
(* start_id, all later events are yielded as they come; events.next() on   *)
(* an exhausted iterator ends the generator.                               *)
skip_start_id(events, start_id) ==
  IF events = <<>> THEN <<>>
  ELSE (IF Head(events).id # start_id THEN <<Head(events)>> ELSE <<>>)
         \o Tail(events)

(* _retrieve asking the iterator for the opposite direction.               *)
_retrieve_flipped(tbl, stream, start_id, end_time, order, limit, conf) ==
  skip_start_id(
    Stream_iterator(tbl, get_stream(stream, conf), start_id,
                    uuid_from_kronos_time(end_time, HIGHEST, unused_uuid4),
                    order = ASCENDING, limit),
    start_id)

_retrieve(tbl, stream, start_id, end_time, order, limit, conf) ==
  skip_start_id(
    Stream_iterator(tbl, get_stream(stream, conf), start_id,
                    uuid_from_kronos_time(end_time, HIGHEST, unused_uuid4),
                    order = DESCENDING, limit),
    start_id)

----------------------------------------------------------------------------
(* The requests the storage serves.                                        *)

Configurations ==
  [timewidth_seconds : Widths, shards_per_bucket : ShardCounts]

EventIds ==
  {uuid_from_kronos_time(t, k, r) : t \in Times, k \in UUIDTypes, r \in uuid4}

Events == [id : EventIds, blob : Blobs]

(* An insert call carries one or two events.                               *)
Batches == {<<e>> : e \in Events} \cup {<<e, f>> : e \in Events, f \in Events}

Limits == (0 .. MaxLimit) \cup {NoLimit}
Orders == {ASCENDING, DESCENDING}

NoId == uuid_from_kronos_time(0, LOWEST, unused_uuid4)

NoCall ==
  [op |-> "none", stream |-> "a", events |-> <<>>, start_id |-> NoId,
   end_time |-> 0, order |-> ASCENDING, limit |-> 0, time |-> 0,
   type |-> LOWEST]

NoResult == [emitted |-> <<>>, tombstones |-> 0, names |-> {}, raised |-> ""]

Workers == {"w1", "w2"}

NoHandle == Handle(<<>>, "none")

IdleWorker ==
  [pc |-> "idle", stream |-> "a", events |-> <<>>, written |-> 0,
   handle |-> NoHandle, created |-> FALSE]

Init ==
  /\ workers = [w \in Workers |-> IdleWorker]
  /\ namespace_names = <<"kronos">>
  /\ connections_to_shutdown = setup_cassandra(namespace_names)
  /\ shutdown = <<>>
  /\ configuration \in Configurations
  /\ table = {}
  /\ stream_list = {}
  /\ streams = {}
  /\ pc = "idle"
  /\ call = NoCall
  /\ before = {}
  /\ result = NoResult

(* Every request obtains its Stream handle through get_stream, which       *)
(* memoizes the handle and adds the name to stream_list.                   *)
UseStream(stream) ==
  /\ streams' = Namespace_put(streams,
                              Handle(get_stream(stream, configuration),
                                     "main")).streams
  /\ stream_list' = stream_list \cup {stream}

Insert(stream, events) ==
  /\ pc = "idle"
  /\ table' = _insert(table, stream, events, configuration)
  /\ UseStream(stream)
  /\ pc' = "done"
  /\ call' = [NoCall EXCEPT !.op = "insert", !.stream = stream, !.events = events]
  /\ before' = table
  /\ result' = NoResult
  /\ UNCHANGED configuration
  /\ UNCHANGED <<workers, namespace_names, connections_to_shutdown, shutdown>>

Retrieve(stream, start_id, end_time, order, limit) ==
  /\ pc = "idle"
  /\ UseStream(stream)
  /\ pc' = "done"
  /\ call' = [NoCall EXCEPT !.op = "retrieve", !.stream = stream,
                            !.start_id = start_id, !.end_time = end_time,
                            !.order = order, !.limit = limit]
  /\ before' = table
  /\ result' = [NoResult EXCEPT
                  !.emitted = _retrieve(table, stream, start_id, end_time,
                                        order, limit, configuration),
                  !.raised = generator_exit(
                               Stream_iterator(
                                 table, get_stream(stream, configuration),
                                 start_id,
                                 uuid_from_kronos_time(end_time, HIGHEST,
                                                       unused_uuid4),
                                 order = DESCENDING, limit))]
  /\ UNCHANGED <<configuration, table>>
  /\ UNCHANGED <<workers, namespace_names, connections_to_shutdown, shutdown>>

Delete(stream, start_id, end_time) ==
  /\ pc = "idle"
  /\ LET d == _delete(table, stream, start_id, end_time, configuration)
     IN /\ table' = d.table
        /\ result' = [NoResult EXCEPT !.tombstones = d.tombstones]
  /\ UseStream(stream)
  /\ pc' = "done"
  /\ call' = [NoCall EXCEPT !.op = "delete", !.stream = stream,
                            !.start_id = start_id, !.end_time = end_time]
  /\ before' = table
  /\ UNCHANGED configuration
  /\ UNCHANGED <<workers, namespace_names, connections_to_shutdown, shutdown>>

Streams ==
  /\ pc = "idle"
  /\ pc' = "done"
  /\ call' = [NoCall EXCEPT !.op = "streams"]
  /\ before' = table
  /\ result' = [NoResult EXCEPT !.names = _streams(stream_list)]
  /\ UNCHANGED <<configuration, table, stream_list, streams>>
  /\ UNCHANGED <<workers, namespace_names, connections_to_shutdown, shutdown>>

(* The response is handed back and the worker takes the next request.      *)
Return ==
  /\ pc = "done"
  /\ pc' = "idle"
  /\ call' = NoCall
  /\ before' = {}
  /\ result' = NoResult
  /\ UNCHANGED <<configuration, table, stream_list, streams>>
  /\ UNCHANGED <<workers, namespace_names, connections_to_shutdown, shutdown>>

(* A range starts at the lowest id of a time or at the id of a stored      *)
(* event (the last id the caller saw).                                     *)
StartIds ==
  {uuid_from_kronos_time(t, LOWEST, unused_uuid4) : t \in Times}
    \cup {r.id : r \in table}

(* One stream is written and read back.                                    *)
InsertOp ==
  /\ pc = "idle"
  /\ \E events \in Batches :
       /\ Cardinality(_insert(table, "a", events, configuration)) <= MaxEvents
       /\ Insert("a", events)

RetrieveOp ==
  /\ pc = "idle"
  /\ \E start_id \in StartIds, end_time \in Times,
        order \in Orders, limit \in Limits :
       Retrieve("a", start_id, end_time, order, limit)

Next == InsertOp \/ RetrieveOp \/ Return

Spec == Init /\ [][Next]_vars

(* One stream is written, events already stored being written again: a     *)
(* call carries one event, the same event twice, or two stored events.     *)
RewriteBatches ==
  LET stored == {[id |-> r.id, blob |-> r.blob] : r \in table}
  IN {<<e>> : e \in Events} \cup {<<e, e>> : e \in Events}
       \cup {<<e, f>> : e \in stored, f \in stored}

InsertAgainOp ==
  /\ pc = "idle"
  /\ \E events \in RewriteBatches :
       /\ Cardinality(_insert(table, "a", events, configuration)) <= MaxEvents
       /\ Insert("a", events)

NextInsert == InsertAgainOp \/ Return

SpecInsert == Init /\ [][NextInsert]_vars

(* Two streams are written and ranges of them deleted.                     *)
InsertAnyOp ==
  /\ pc = "idle"
  /\ \E stream \in StreamNames, e \in Events :
       /\ Cardinality(_insert(table, stream, <<e>>, configuration)) <= MaxEvents
       /\ Insert(stream, <<e>>)

DeleteOp ==
  /\ pc = "idle"
  /\ \E stream \in StreamNames, start_id \in StartIds, end_time \in Times :
       Delete(stream, start_id, end_time)

NextDelete == InsertAnyOp \/ DeleteOp \/ Return

SpecDelete == Init /\ [][NextDelete]_vars

(* Two streams are written, read, deleted from and listed.                 *)
RetrieveAnyOp ==
  /\ pc = "idle"
  /\ \E stream \in StreamNames, start_id \in StartIds, end_time \in Times :
       Retrieve(stream, start_id, end_time, ASCENDING, NoLimit)

NextStreams ==
  InsertAnyOp \/ RetrieveAnyOp \/ DeleteOp \/ Streams \/ Return

SpecStreams == Init /\ [][NextStreams]_vars

----------------------------------------------------------------------------
(* Workers insert into one stream concurrently.  Each worker's _insert     *)
(* obtains the handle (a lookup in Namespace.streams, then the guarded     *)
(* creation when the lookup found none) and writes its events to the       *)
(* backend one after the other; the steps of the workers interleave.       *)

WorkerEvents ==
  [id : {uuid_from_kronos_time(t, RANDOM, r) : t \in Times, r \in uuid4},
   blob : Blobs]

WorkerBatches ==
  {<<e>> : e \in WorkerEvents}
    \cup {<<p[1], p[2]>> :
            p \in {q \in WorkerEvents \X WorkerEvents :
                     TimeUUID_lt(q[1].id, q[2].id)}}

EventsOf(w) == {workers[w].events[i] : i \in DOMAIN workers[w].events}

Begin(w) ==
  /\ pc = "idle"
  /\ workers[w].pc = "idle"
  /\ \E events \in WorkerBatches :
       /\ \A i \in DOMAIN events, v \in Workers \ {w} :
            events[i].id \notin {e.id : e \in EventsOf(v)}
       /\ workers' = [workers EXCEPT ![w] =
                        [IdleWorker EXCEPT !.pc = "lookup", !.events = events]]
  /\ UNCHANGED <<configuration, table, stream_list, streams, pc, call,
                 before, result, namespace_names, connections_to_shutdown, shutdown>>

Lookup(w) ==
  /\ workers[w].pc = "lookup"
  /\ LET stream == get_stream(workers[w].stream, configuration)
         found == Namespace_lookup(streams, stream)
     IN workers' = [workers EXCEPT ![w] =
                      IF found = {}
                        THEN [@ EXCEPT !.pc = "put", !.created = TRUE,
                                       !.handle = Handle(stream, w)]
                        ELSE [@ EXCEPT !.pc = "write",
                                       !.handle = CHOOSE h \in found : TRUE]]
  /\ UNCHANGED <<configuration, table, stream_list, streams, pc, call,
                 before, result, namespace_names, connections_to_shutdown, shutdown>>

Put(w) ==
  /\ workers[w].pc = "put"
  /\ LET put == Namespace_put(streams, workers[w].handle)
     IN /\ streams' = put.streams
        /\ workers' = [workers EXCEPT ![w] =
                         [@ EXCEPT !.pc = "write", !.handle = put.handle]]
  /\ stream_list' = stream_list \cup {workers[w].stream}
  /\ UNCHANGED <<configuration, table, pc, call, before, result,
                 namespace_names, connections_to_shutdown, shutdown>>

Write(w) ==
  /\ workers[w].pc = "write"
  /\ workers[w].written < Len(workers[w].events)
  /\ table' = Stream_insert(table, workers[w].handle.stream,
                            <<workers[w].events[workers[w].written + 1]>>)
  /\ workers' = [workers EXCEPT ![w] = [@ EXCEPT !.written = @ + 1]]
  /\ UNCHANGED <<configuration, stream_list, streams, pc, call, before,
                 result, namespace_names, connections_to_shutdown, shutdown>>

Finish(w) ==
  /\ workers[w].pc = "write"
  /\ workers[w].written = Len(workers[w].events)
  /\ workers' = [workers EXCEPT ![w] = [@ EXCEPT !.pc = "returned"]]
  /\ UNCHANGED <<configuration, table, stream_list, streams, pc, call,
                 before, result, namespace_names, connections_to_shutdown, shutdown>>

BeginOp == \E w \in Workers : Begin(w)
LookupOp == \E w \in Workers : Lookup(w)
PutOp == \E w \in Workers : Put(w)
WriteOp == \E w \in Workers : Write(w)
FinishOp == \E w \in Workers : Finish(w)

(* Once every insert has returned, the stream is read back.                *)
RetrieveAfterOp ==
  /\ pc = "idle"
  /\ \A w \in Workers : workers[w].pc = "returned"
  /\ \E end_time \in {MaxTime, MaxTime + 1} :
       Retrieve("a", uuid_from_kronos_time(0, LOWEST, unused_uuid4), end_time,
                ASCENDING, NoLimit)

NextWorkers ==
  BeginOp \/ LookupOp \/ PutOp \/ WriteOp \/ FinishOp \/ RetrieveAfterOp
    \/ Return

SpecWorkers == Init /\ [][NextWorkers]_vars

----------------------------------------------------------------------------
(* Process exit: the hook registered by setup_cassandra shuts down the     *)
(* connections of connections_to_shutdown, one after the other.            *)

NamespaceNames == {"n1", "n2", "n3", "n4"}

RECURSIVE Arrangements(_)
Arrangements(names) ==
  IF names = {} THEN {<<>>}
  ELSE {<<>>} \cup UNION {{<<n>> \o rest : rest \in Arrangements(names \ {n})} :
                            n \in names}

InitExit ==
  /\ configuration \in Configurations
  /\ table = {}
  /\ stream_list = {}
  /\ streams = {}
  /\ pc = "idle"
  /\ call = NoCall
  /\ before = {}
  /\ result = NoResult
  /\ workers = [w \in Workers |-> IdleWorker]
  /\ namespace_names \in Arrangements(NamespaceNames)
  /\ connections_to_shutdown = setup_cassandra(namespace_names)
  /\ shutdown = <<>>

AtExit ==
  /\ pc = "idle"
  /\ pc' = "exit"
  /\ UNCHANGED <<configuration, table, stream_list, streams, call, before,
                 result, workers, namespace_names, connections_to_shutdown,
                 shutdown>>

ShutdownNext ==
  /\ pc = "exit"
  /\ Len(shutdown) < Len(connections_to_shutdown)
  /\ shutdown' = Append(shutdown, connections_to_shutdown[Len(shutdown) + 1])
  /\ UNCHANGED <<configuration, table, stream_list, streams, pc, call,
                 before, result, workers, namespace_names,
                 connections_to_shutdown>>

NextExit == AtExit \/ ShutdownNext

SpecExit == InitExit /\ [][NextExit]_vars

----------------------------------------------------------------------------
(* Scenario: width 60 s, 4 shards, events at 1, 30, 61, 120 and 121 s with *)
(* ids made by uuid_from_time; then delete from the id of the event at     *)
(* 30 s to 120 s; then retrieve everything.                                *)

S3Times == {1, 30, 61, 120, 121}
S3Configuration == [timewidth_seconds |-> 60, shards_per_bucket |-> 4]

S3Stored(t) ==
  {r \in table : uuid_to_kronos_time(r.id) = time_to_kronos_time(t)}

InitS3 ==
  /\ workers = [w \in Workers |-> IdleWorker]
  /\ namespace_names = <<"kronos">>
  /\ connections_to_shutdown = setup_cassandra(namespace_names)
  /\ shutdown = <<>>
  /\ configuration = S3Configuration
  /\ table = {}
  /\ stream_list = {}
  /\ streams = {}
  /\ pc = "idle"
  /\ call = NoCall
  /\ before = {}
  /\ result = NoResult

S3Insert ==
  /\ pc \in {"idle", "done"}
  /\ call.op \in {"none", "insert"}
  /\ \E t \in S3Times, r \in uuid4, blob \in Blobs :
       /\ S3Stored(t) = {}
       /\ LET event == [id |-> uuid_from_time(t, RANDOM, r), blob |-> blob]
          IN /\ table' = _insert(table, "a", <<event>>, configuration)
             /\ call' = [NoCall EXCEPT !.op = "insert", !.events = <<event>>]
  /\ UseStream("a")
  /\ pc' = "done"
  /\ before' = table
  /\ result' = NoResult
  /\ UNCHANGED configuration
  /\ UNCHANGED <<workers, namespace_names, connections_to_shutdown, shutdown>>

S3Delete ==
  /\ pc = "done"
  /\ call.op = "insert"
  /\ \A t \in S3Times : S3Stored(t) # {}
  /\ \E r \in S3Stored(30) :
       LET d == _delete(table, "a", r.id, time_to_kronos_time(120), configuration)
       IN /\ table' = d.table
          /\ result' = [NoResult EXCEPT !.tombstones = d.tombstones]
          /\ call' = [NoCall EXCEPT !.op = "delete", !.start_id = r.id,
                                    !.end_time = time_to_kronos_time(120)]
  /\ UseStream("a")
  /\ pc' = "done"
  /\ before' = table
  /\ UNCHANGED configuration
  /\ UNCHANGED <<workers, namespace_names, connections_to_shutdown, shutdown>>

S3Retrieve ==
  /\ pc = "done"
  /\ call.op = "delete"
  /\ LET start_id == uuid_from_time(0, LOWEST, unused_uuid4)
         end_time == time_to_kronos_time(200)
     IN /\ call' = [NoCall EXCEPT !.op = "retrieve", !.start_id = start_id,
                                  !.end_time = end_time, !.limit = NoLimit]
        /\ result' = [NoResult EXCEPT !.emitted =
                        _retrieve(table, "a", start_id, end_time, ASCENDING,
                                  NoLimit, configuration)]
  /\ UseStream("a")
  /\ pc' = "done"
  /\ before' = table
  /\ UNCHANGED <<configuration, table>>
  /\ UNCHANGED <<workers, namespace_names, connections_to_shutdown, shutdown>>

NextS3 == S3Insert \/ S3Delete \/ S3Retrieve

SpecS3 == InitS3 /\ [][NextS3]_vars

----------------------------------------------------------------------------
(* uuid_from_kronos_time on its own: every time whose successor still fits *)
(* the timestamp field, every type, every outcome of uuid4().              *)

UuidTimes ==
  (0 - EpochOffset)
    .. (2 ^ (TimeLowBits + TimeMidBits + TimeHiBits)) - EpochOffset - 2

MakeUuid ==
  /\ pc = "idle"
  /\ \E time \in UuidTimes, type \in UUIDTypes, r \in uuid4, blob \in Blobs :
       /\ call' = [NoCall EXCEPT !.op = "uuid_from_kronos_time",
                                 !.time = time, !.type = type]
       /\ result' = [NoResult EXCEPT !.emitted =
                       <<[id |-> uuid_from_kronos_time(time, type, r),
                          blob |-> blob]>>]
  /\ pc' = "done"
  /\ UNCHANGED <<configuration, table, stream_list, streams, before>>
  /\ UNCHANGED <<workers, namespace_names, connections_to_shutdown, shutdown>>

NextUuid == MakeUuid \/ Return

SpecUuid == Init /\ [][NextUuid]_vars

----------------------------------------------------------------------------
(* Properties.                                                             *)

Retrieved == pc = "done" /\ call.op = "retrieve"
Inserted == pc = "done" /\ call.op = "insert"
Deleted == pc = "done" /\ call.op = "delete"

Emitted == result.emitted
EmittedIds == {Emitted[i].id : i \in DOMAIN Emitted}
StoredIds(tbl, stream) == {r.id : r \in {q \in tbl : q.stream_name = stream}}

LowestId(t) == uuid_from_kronos_time(t, LOWEST, unused_uuid4)
HighestId(t) == uuid_from_kronos_time(t, HIGHEST, unused_uuid4)

Reverse(s) == [i \in 1 .. Len(s) |-> s[Len(s) + 1 - i]]
Prefix(s, n) == SubSeq(s, 1, IF n < Len(s) THEN n ELSE Len(s))
Occurrences(s, id) == Cardinality({i \in DOMAIN s : s[i].id = id})
Width == epoch_time_to_kronos_time(configuration.timewidth_seconds)
Opposite(order) == IF order = ASCENDING THEN DESCENDING ELSE ASCENDING

StrictlyOrdered(s, order) ==
  \A i \in 1 .. Len(s) - 1 :
    IF order = ASCENDING THEN TimeUUID_lt(s[i].id, s[i + 1].id)
                         ELSE TimeUUID_lt(s[i + 1].id, s[i].id)

(* What the served retrieve would emit with another order or limit.        *)
SameRetrieve(order, limit) ==
  _retrieve(table, call.stream, call.start_id, call.end_time, order, limit,
            configuration)

(* C1: a retrieve never emits the event whose id equals start_id.          *)
C1_BoundaryExclusivity ==
  Retrieved => call.start_id \notin EmittedIds

(* C2: an ASCENDING retrieve without limit from the earliest stored id to  *)
(* the latest stored time emits exactly the inserted events, in strictly   *)
(* increasing id order.                                                    *)
C2_InsertThenRetrieveTotality ==
  LET E == StoredIds(table, call.stream)
  IN (/\ Retrieved
      /\ call.order = ASCENDING
      /\ call.limit = NoLimit
      /\ E # {}
      /\ call.start_id \in E
      /\ \A id \in E : TimeUUID_le(call.start_id, id)
      /\ \A id \in E : uuid_to_kronos_time(id) <= call.end_time
      /\ \E id \in E : uuid_to_kronos_time(id) = call.end_time)
     => /\ EmittedIds = E
        /\ Len(Emitted) = Cardinality(E)
        /\ StrictlyOrdered(Emitted, ASCENDING)

(* The same totality with a start bound strictly below every inserted id.  *)
C2_TotalityFromLowerBound ==
  LET E == StoredIds(table, call.stream)
  IN (/\ Retrieved
      /\ call.order = ASCENDING
      /\ call.limit = NoLimit
      /\ E # {}
      /\ \A id \in E : TimeUUID_lt(call.start_id, id)
      /\ \A id \in E : uuid_to_kronos_time(id) <= call.end_time
      /\ \E id \in E : uuid_to_kronos_time(id) = call.end_time)
     => /\ EmittedIds = E
        /\ Len(Emitted) = Cardinality(E)
        /\ StrictlyOrdered(Emitted, ASCENDING)

(* C3: within one retrieve the emitted ids are strictly increasing         *)
(* (ASCENDING) or strictly decreasing (DESCENDING), whatever the width and *)
(* the shard count; no id is emitted twice.                                *)
C3_StrictIdOrder ==
  Retrieved => StrictlyOrdered(Emitted, call.order)

(* Two events from different buckets of a two-shard, width-2 stream are    *)
(* emitted.                                                                *)
C3_Witness ==
  /\ Retrieved
  /\ Len(Emitted) >= 2
  /\ configuration.shards_per_bucket = 2
  /\ Width = 2
  /\ \E i \in DOMAIN Emitted, j \in DOMAIN Emitted :
       round_down(uuid_to_kronos_time(Emitted[i].id), Width)
         # round_down(uuid_to_kronos_time(Emitted[j].id), Width)

(* C4: without limit, what a retrieve emits is the reverse of what the     *)
(* retrieve with the same bounds and the opposite order emits.             *)
C4_OrderSymmetry ==
  (Retrieved /\ call.limit = NoLimit)
    => Emitted = Reverse(SameRetrieve(Opposite(call.order), NoLimit))

(* C5: a retrieve with limit L emits the first L events of what the same   *)
(* retrieve emits without limit, or all of them when there are fewer.      *)
C5_Limit ==
  (Retrieved /\ call.limit # NoLimit)
    => Emitted = Prefix(SameRetrieve(call.order, NoLimit), call.limit)

(* The event of the served insert was stored before the call.              *)
AlreadyStored(e) ==
  \E r \in before :
    r.stream_name = call.stream /\ r.id = e.id /\ r.blob = e.blob

EmittedOnce(events) ==
  \A e \in {events[i] : i \in DOMAIN events}, start_id \in StartIds,
     end_time \in Times, order \in Orders :
    (TimeUUID_le(start_id, e.id) /\ TimeUUID_le(e.id, HighestId(end_time)))
      => LET n == Occurrences(_retrieve(table, call.stream, start_id, end_time,
                                        order, NoLimit, configuration),
                              e.id)
         IN IF start_id = e.id THEN n <= 1 ELSE n = 1

SameEventTwice == Len(call.events) = 2 /\ call.events[1] = call.events[2]

(* C6: inserting an event that is already stored, or the same event twice  *)
(* in one call, leaves the table as one insert leaves it, and every        *)
(* retrieve whose bounds include the event emits it once.                  *)
C6_IdempotentInsert ==
  Inserted =>
    /\ (\A i \in DOMAIN call.events : AlreadyStored(call.events[i]))
         => table = before
    /\ SameEventTwice
         => table = _insert(before, call.stream, <<call.events[1]>>,
                            configuration)
    /\ (SameEventTwice
          \/ \A i \in DOMAIN call.events : AlreadyStored(call.events[i]))
         => EmittedOnce(call.events)

(* A stored event is inserted again, twice in one call, into a stream with *)
(* two shards.                                                             *)
C6_Witness ==
  /\ Inserted
  /\ Len(call.events) = 2
  /\ call.events[1] = call.events[2]
  /\ AlreadyStored(call.events[1])
  /\ configuration.shards_per_bucket = 2
  /\ table = before

(* The range of the served delete.                                         *)
InDeletedRange(stream, id) ==
  /\ stream = call.stream
  /\ TimeUUID_le(call.start_id, id)
  /\ TimeUUID_le(id, HighestId(call.end_time))

(* The table after a delete is the table before it without the range.      *)
C7_DeletesExactlyTheRange ==
  Deleted => table = {r \in before : ~InDeletedRange(r.stream_name, r.id)}

(* After a delete, a retrieve with the delete's bounds emits nothing.      *)
C7_DeletedRangeIsEmpty ==
  Deleted => \A order \in Orders : SameRetrieve(order, NoLimit) = <<>>

(* After a delete, every retrieve emits what it emitted before, less the   *)
(* events of the deleted range.                                            *)
C7_OthersRetrievedAsBefore ==
  Deleted =>
    \A stream \in StreamNames, start_id \in StartIds, end_time \in Times,
       order \in Orders :
      LET was == _retrieve(before, stream, start_id, end_time, order, NoLimit,
                           configuration)
          now == _retrieve(table, stream, start_id, end_time, order, NoLimit,
                           configuration)
          Kept(e) == ~InDeletedRange(stream, e.id)
      IN now = SelectSeq(was, Kept)

(* C7: delete removes exactly the events of the stream with                *)
(* start_id <= id <= uuid_from_kronos_time(end_time, HIGHEST); afterwards  *)
(* a retrieve over the range is empty, and every other event is retrieved  *)
(* as before the delete.                                                   *)
C7_RangedDelete ==
  /\ C7_DeletesExactlyTheRange
  /\ C7_DeletedRangeIsEmpty
  /\ C7_OthersRetrievedAsBefore

(* C8: scenario S3: after the delete from the id of the event at 30 s to   *)
(* 120 s, retrieving everything returns the events at 1, 30 and 121 s.     *)
C8_ScenarioS3 ==
  Retrieved =>
    [i \in DOMAIN Emitted |-> uuid_to_kronos_time(Emitted[i].id)]
      = <<time_to_kronos_time(1), time_to_kronos_time(30),
          time_to_kronos_time(121)>>

(* C9: a retrieve without limit emits every stored event whose time is at  *)
(* most end_time and whose id is above start_id, and no event whose time   *)
(* is above end_time.                                                      *)
C9_EndBoundInclusive ==
  (Retrieved /\ call.limit = NoLimit)
    => /\ \A id \in StoredIds(table, call.stream) :
            (uuid_to_kronos_time(id) <= call.end_time
               /\ TimeUUID_lt(call.start_id, id))
              => id \in EmittedIds
       /\ \A id \in EmittedIds : uuid_to_kronos_time(id) <= call.end_time

(* C10: for every time t, LOWEST(t) < RANDOM(t) <= HIGHEST(t) and          *)
(* HIGHEST(t) < LOWEST(t + 1).                                             *)
C10_BoundOrdering ==
  (pc = "done" /\ call.op = "uuid_from_kronos_time")
    => LET t == call.time
           u == Emitted[1].id
       IN /\ call.type = LOWEST => TimeUUID_lt(u, HighestId(t))
          /\ call.type = RANDOM
               => TimeUUID_lt(LowestId(t), u) /\ TimeUUID_le(u, HighestId(t))
          /\ call.type = HIGHEST => TimeUUID_lt(u, LowestId(t + 1))

(* The lexicographic order on the big-endian encoding of the fields        *)
(* time_low, time_mid, time_hi_version, clock_seq_hi_variant,              *)
(* clock_seq_low, node.                                                    *)
LexLess(a, b) == uuid_int(a) < uuid_int(b)

MadeUuid == pc = "done" /\ call.op = "uuid_from_kronos_time"

(* C11: in the lexicographic order on the encoding, an id with an earlier  *)
(* time is below every id with a later time.                               *)
C11_IdOrderIsTimeOrder ==
  MadeUuid =>
    \A time \in UuidTimes, type \in UUIDTypes, r \in uuid4 :
      LET b == uuid_from_kronos_time(time, type, r)
      IN uuid_to_kronos_time(Emitted[1].id) < uuid_to_kronos_time(b)
           => LexLess(Emitted[1].id, b)

(* C19: the time read back from an id is the time it was made from,        *)
(* whatever the type and the random bits.                                  *)
C19_IdTimeRoundTrip ==
  MadeUuid => uuid_to_kronos_time(Emitted[1].id) = call.time

(* A RANDOM id is made for a time that fills time_low, time_mid and        *)
(* time_hi_version.                                                        *)
C19_Witness ==
  /\ MadeUuid
  /\ call.type = RANDOM
  /\ Emitted[1].id.time_low # 0
  /\ Emitted[1].id.time_mid # 0
  /\ Emitted[1].id.time_hi_version = (2 ^ TimeHiBits) - 1
  /\ uuid_to_kronos_time(Emitted[1].id) = call.time

(* C12: stream_list changes only when an insert is served, which adds the  *)
(* name of the stream written; after an insert the name is listed; and     *)
(* streams returns the list.  With the empty list at the start, the names  *)
(* returned are exactly the names of the streams ever written.             *)
C12_StreamListExactness ==
  [][/\ stream_list' # stream_list
          => /\ call'.op = "insert"
             /\ stream_list' = stream_list \cup {call'.stream}
     /\ (pc' = "done" /\ call'.op = "insert") => call'.stream \in stream_list'
     /\ (pc' = "done" /\ call'.op = "streams")
          => result'.names = stream_list']_vars

(* What the iterator under the served retrieve yields.                     *)
Underlying ==
  Stream_iterator(table, get_stream(call.stream, configuration), call.start_id,
                  HighestId(call.end_time), call.order = DESCENDING, call.limit)

OnlyStartId(events) == Len(events) = 1 /\ events[1].id = call.start_id

(* C14: when the iterator yields nothing, or only the event whose id is    *)
(* start_id, the retrieve emits nothing and ends as a generator ends, with *)
(* no error.                                                               *)
C14_EmptyRetrieve ==
  (Retrieved /\ (Underlying = <<>> \/ OnlyStartId(Underlying)))
    => Emitted = <<>> /\ result.raised = StopIteration

(* A DESCENDING retrieve whose range holds only the start_id event, other  *)
(* events being stored outside the range.                                  *)
C14_Witness ==
  /\ Retrieved
  /\ call.order = DESCENDING
  /\ OnlyStartId(Underlying)
  /\ Cardinality(StoredIds(table, call.stream)) = 2
  /\ Emitted = <<>>

(* The events a stream holds, as one batch.                                *)
RECURSIVE InSomeOrder(_)
InSomeOrder(events) ==
  IF events = {} THEN <<>>
  ELSE LET e == CHOOSE x \in events : TRUE
       IN <<e>> \o InSomeOrder(events \ {e})

StoredEvents(tbl, stream) ==
  {[id |-> r.id, blob |-> r.blob] : r \in {q \in tbl : q.stream_name = stream}}

(* The configuration with twice the shards, and the table of a fresh       *)
(* stream of that configuration after the same events were inserted.       *)
Doubled == [configuration EXCEPT !.shards_per_bucket = 2 * @]

DoubledTable ==
  _insert({}, call.stream, InSomeOrder(StoredEvents(table, call.stream)),
          Doubled)

(* C15: the served retrieve emits the same sequence from a stream that     *)
(* holds the same events under twice the shards.                           *)
C15_ShardingInvariance ==
  Retrieved =>
    Emitted = _retrieve(DoubledTable, call.stream, call.start_id,
                        call.end_time, call.order, call.limit, Doubled)

(* Two events are emitted, one of which lies in another shard once the     *)
(* shards are doubled.                                                     *)
C15_Witness ==
  /\ Retrieved
  /\ Len(Emitted) = 2
  /\ \E r \in table, q \in DoubledTable : r.id = q.id /\ r.shard # q.shard
  /\ \E r \in DoubledTable, q \in DoubledTable : r.shard # q.shard

(* The (bucket, shard) rows the served retrieve reads; delete enumerates   *)
(* its rows with the same operator.                                        *)
FanOut ==
  LET parts == overlapping_shards(get_stream(call.stream, configuration),
                                  call.start_id, HighestId(call.end_time))
  IN {parts[i] : i \in DOMAIN parts}

InTimeRange(id) ==
  /\ uuid_to_kronos_time(call.start_id) <= uuid_to_kronos_time(id)
  /\ uuid_to_kronos_time(id) <= call.end_time

(* C16: every stored row lies in the bucket round_down(t, width), a        *)
(* multiple of width with bucket <= t < bucket + width, and in a shard of  *)
(* [0, shards); and the fan-out of a retrieve contains the row of every    *)
(* event whose time is in [t_start, t_end].                                *)
C16_RoutingAgreement ==
  /\ \A r \in table :
       LET t == uuid_to_kronos_time(r.id)
       IN /\ r.bucket_start_time = round_down(t, Width)
          /\ r.bucket_start_time % Width = 0
          /\ r.bucket_start_time <= t
          /\ t < r.bucket_start_time + Width
          /\ r.shard \in 0 .. configuration.shards_per_bucket - 1
  /\ Retrieved =>
       \A r \in table :
         (r.stream_name = call.stream /\ InTimeRange(r.id))
           => <<r.bucket_start_time, r.shard>> \in FanOut

(* A retrieve that starts inside a bucket of width 2 and reaches the next  *)
(* bucket, with an event stored in each and two shards.                    *)
C16_Witness ==
  /\ Retrieved
  /\ Width = 2
  /\ configuration.shards_per_bucket = 2
  /\ uuid_to_kronos_time(call.start_id) % Width # 0
  /\ \E r \in table, q \in table :
       /\ InTimeRange(r.id) /\ InTimeRange(q.id)
       /\ r.bucket_start_time # q.bucket_start_time
       /\ r.shard # q.shard

AllReturned == \A w \in Workers : workers[w].pc = "returned"

InsertedByWorkers == UNION {EventsOf(w) : w \in Workers}

(* The bounds of the served retrieve hold every inserted id.               *)
RangeHoldsAll ==
  \A e \in InsertedByWorkers :
    /\ TimeUUID_lt(call.start_id, e.id)
    /\ TimeUUID_le(e.id, HighestId(call.end_time))

(* C13: once all concurrent inserts have returned, an ASCENDING retrieve   *)
(* whose range holds every inserted id emits exactly the inserted events,  *)
(* each once, in strictly increasing id order.                             *)
C13_ConcurrentInsert ==
  (Retrieved /\ AllReturned /\ RangeHoldsAll)
    => /\ {Emitted[i] : i \in DOMAIN Emitted} = InsertedByWorkers
       /\ Len(Emitted) = Cardinality(InsertedByWorkers)
       /\ StrictlyOrdered(Emitted, ASCENDING)

(* Two workers wrote two events each, ending in one partition of the       *)
(* stream, and all four are emitted.                                       *)
C13_Witness ==
  /\ Retrieved /\ AllReturned /\ RangeHoldsAll
  /\ \A w \in Workers : Len(workers[w].events) = 2
  /\ Len(Emitted) = 4
  /\ \E r \in table, q \in table :
       /\ r.id # q.id
       /\ PrimaryKey_without_id(r) = PrimaryKey_without_id(q)

Holding(w) == workers[w].pc \in {"write", "returned"}

(* C17: the workers that have obtained a handle for the same stream hold   *)
(* one and the same handle, and Namespace.streams holds exactly that one   *)
(* handle for the stream.                                                  *)
C17_OneHandle ==
  \A w \in Workers :
    Holding(w) =>
      /\ Namespace_lookup(streams, workers[w].handle.stream)
           = {workers[w].handle}
      /\ \A v \in Workers :
           (Holding(v) /\ workers[v].handle.stream = workers[w].handle.stream)
             => workers[v].handle = workers[w].handle

(* Both workers found no handle and constructed one; both have been        *)
(* through the guarded creation.                                           *)
C17_Witness ==
  /\ \A w \in Workers : Holding(w) /\ workers[w].created
  /\ \E w \in Workers : workers[w].handle.creator # w

HookDone == pc = "exit" /\ Len(shutdown) = Len(connections_to_shutdown)

ShutDown == {shutdown[i] : i \in DOMAIN shutdown}

(* C18: when the exit hook has run, the session of every configured        *)
(* namespace and the cluster are shut down; and at no time has a session   *)
(* been shut down after the cluster.                                       *)
C18_ShutdownOrdering ==
  /\ HookDone =>
       /\ \A i \in DOMAIN namespace_names :
            [kind |-> "session", keyspace |-> namespace_names[i]] \in ShutDown
       /\ [kind |-> "cluster", keyspace |-> ""] \in ShutDown
  /\ \A i \in DOMAIN shutdown, j \in DOMAIN shutdown :
       (shutdown[i].kind = "cluster" /\ shutdown[j].kind = "session") => j < i

(* The hook has run with three namespaces configured.                      *)
C18_Witness ==
  /\ HookDone
  /\ Len(namespace_names) = 3
  /\ Len(shutdown) = 4

====
